---- MODULE Spec2Model ----
(***************************************************************************)
(* The URL configuration of todo/urls.py: a DefaultRouter with the todo    *)
(* viewset registered under 'todos', mounted at api/v1/, and the generated *)
(* documentation mounted at docs/.                                         *)
(*                                                                         *)
(* A path is a sequence of tokens.  A token is a run of characters that    *)
(* the patterns of the table never split: "/", ".", and words such as      *)
(* "api", "todos" or "7".  The regular expressions of the table are        *)
(* sequences of elements (a literal, an optional literal, a named group    *)
(* over a character class) matched with greedy backtracking.               *)
(***************************************************************************)
EXTENDS Integers, Sequences, FiniteSets

VARIABLES urlpatterns, pc, request, match, dispatched, action, response

vars == <<urlpatterns, pc, request, match, dispatched, action, response>>

----------------------------------------------------------------------------
(* Bounds and input sets *)

MaxRest == 4

RestAlphabet == {"/", ".", "todos", "7", "A"}

RECURSIVE SeqsUpTo(_, _)
SeqsUpTo(S, n) ==
    IF n = 0 THEN {<<>>}
    ELSE LET shorter == SeqsUpTo(S, n - 1)
         IN  shorter \cup {Append(s, t) : s \in shorter, t \in S}

PathPrefixes ==
    { <<>>,
      <<"api", "/", "v1", "/">>,
      <<"api", "/", "v1", "/", "todos">>,
      <<"api", "/", "v1", "/", "todos", "/">>,
      <<"api", "/", "v1", "/", "todos", "/", "7">>,
      <<"docs", "/">>,
      <<"docs", "/", "schema", ".", "js">>,
      <<"admin", "/">>,
      <<"admin", "/", "docs", "/">> }

Paths == { <<"/">> \o p \o r : p \in PathPrefixes, r \in SeqsUpTo(RestAlphabet, MaxRest) }

Methods == {"GET", "POST", "PUT", "DELETE"}

Queries == {"", "format=api"}

----------------------------------------------------------------------------
(* Regular expressions over tokens *)

Lit(t) == [kind |-> "lit", tok |-> t, name |-> "", class |-> ""]

Opt(t) == [kind |-> "opt", tok |-> t, name |-> "", class |-> ""]

Group(n, c) == [kind |-> "group", tok |-> "", name |-> n, class |-> c]

\* The tokens made of characters of [a-z0-9] only.
LowerAlnum == {"api", "v1", "todos", "docs", "schema", "js", "admin", "7"}

\* A lookup class that lets the dot through: [^/]+
LookupTokWithDot(t) == t # "/"

\* The router's default lookup_value_regex, [^/.]+
LookupTok(t) == t # "/" /\ t # "."

\* The character class of the format suffix, [a-z0-9]+
FormatTok(t) == t \in LowerAlnum

InClass(c, t) ==
    IF c = "lookup" THEN LookupTok(t)
    ELSE IF c = "format" THEN FormatTok(t)
    ELSE FALSE

NoKwargs == [ok |-> TRUE, pk |-> <<>>, format |-> <<>>]

Fail == [ok |-> FALSE, pk |-> <<>>, format |-> <<>>]

Take(s, n) == SubSeq(s, 1, n)

Drop(s, n) == SubSeq(s, n + 1, Len(s))

\* The length of the longest prefix of s inside class c.
RECURSIVE RunLen(_, _)
RunLen(c, s) ==
    IF s # <<>> /\ InClass(c, Head(s)) THEN 1 + RunLen(c, Tail(s)) ELSE 0

\* re: the elements of pat matched from the start of s to its end ($),
\* greedy, backtracking; the groups captured, or Fail.
RECURSIVE MatchRegex(_, _, _)
RECURSIVE MatchGroup(_, _, _, _, _)
MatchRegex(pat, s, kw) ==
    IF pat = <<>> THEN (IF s = <<>> THEN kw ELSE Fail)
    ELSE LET e == Head(pat)
         IN  IF e.kind = "lit"
             THEN IF s # <<>> /\ Head(s) = e.tok
                  THEN MatchRegex(Tail(pat), Tail(s), kw)
                  ELSE Fail
             ELSE IF e.kind = "opt"
             THEN LET taken == IF s # <<>> /\ Head(s) = e.tok
                               THEN MatchRegex(Tail(pat), Tail(s), kw)
                               ELSE Fail
                  IN  IF taken.ok THEN taken ELSE MatchRegex(Tail(pat), s, kw)
             ELSE MatchGroup(e, Tail(pat), s, kw, RunLen(e.class, s))

MatchGroup(e, rest, s, kw, n) ==
    IF n = 0 THEN Fail
    ELSE LET got == MatchRegex(rest, Drop(s, n), [kw EXCEPT ![e.name] = Take(s, n)])
         IN  IF got.ok THEN got ELSE MatchGroup(e, rest, s, kw, n - 1)

----------------------------------------------------------------------------
(* The route table *)

URLPattern(regex, view, actions, name) ==
    [regex |-> regex, view |-> view, actions |-> actions, name |-> name]

\* The operations of the todo resource controller (views.TodoView).
TodoViewActions == {"list", "create", "retrieve", "update", "destroy"}

\* The router binds a method only to an operation the viewset has.
GetMethodMap(viewsetActions, mapping) ==
    {b \in mapping : b[2] \in viewsetActions}

\* The router's list route, ^{prefix}{trailing_slash}$
ListRoute(prefix, basename, viewsetActions) ==
    URLPattern(<<Lit(prefix), Lit("/")>>, "TodoView",
               GetMethodMap(viewsetActions, {<<"GET", "list">>, <<"POST", "create">>}),
               basename \o "-list")

\* The router's detail route, ^{prefix}/{lookup}{trailing_slash}$
DetailRoute(prefix, basename, viewsetActions) ==
    URLPattern(<<Lit(prefix), Lit("/"), Group("pk", "lookup"), Lit("/")>>, "TodoView",
               GetMethodMap(viewsetActions,
                            {<<"GET", "retrieve">>, <<"PUT", "update">>,
                             <<"PATCH", "partial_update">>, <<"DELETE", "destroy">>}),
               basename \o "-detail")

\* The router's root view, ^$
RootRoute == URLPattern(<<>>, "APIRootView", {<<"GET", "api-root">>}, "api-root")

\* rstrip('/') of a regular expression whose $ is already stripped.
RECURSIVE RStripSlash(_)
RStripSlash(regex) ==
    IF regex # <<>> /\ regex[Len(regex)] = Lit("/")
    THEN RStripSlash(Take(regex, Len(regex) - 1))
    ELSE regex

\* The suffix the router appends, \.(?P<format>[a-z0-9]+)/?$
SuffixPattern == <<Lit("."), Group("format", "format"), Opt("/")>>

\* Every pattern, followed by the same pattern with a format suffix.
RECURSIVE FormatSuffixPatterns(_)
FormatSuffixPatterns(urls) ==
    IF urls = <<>> THEN <<>>
    ELSE LET u == Head(urls)
         IN  <<u, [u EXCEPT !.regex = RStripSlash(u.regex) \o SuffixPattern]>>
             \o FormatSuffixPatterns(Tail(urls))

\* router = routers.DefaultRouter(); router.register(r'todos', views.TodoView, 'todo')
RouterUrls ==
    FormatSuffixPatterns(
        <<ListRoute("todos", "todo", TodoViewActions),
          DetailRoute("todos", "todo", TodoViewActions),
          RootRoute>>)

\* include_docs_urls(title='Todo API'): the index and the schema script.
IncludeDocsUrls ==
    <<URLPattern(<<>>, "DocsView", {<<"GET", "docs">>}, "docs-index"),
      URLPattern(<<Lit("schema"), Lit("."), Lit("js")>>, "SchemaJSView",
                 {<<"GET", "docs">>}, "schema-js")>>

Mount(route, urls) == [route |-> route, urls |-> urls]

ApiRoute == <<"api", "/", "v1", "/">>

DocsRoute == <<"docs", "/">>

\* A table that also mounts the admin site the module imports.
UrlPatternsWithAdmin ==
    <<Mount(ApiRoute, RouterUrls),
      Mount(DocsRoute, IncludeDocsUrls),
      Mount(<<"admin", "/">>,
            <<URLPattern(<<>>, "AdminView", {<<"GET", "admin">>}, "admin-index")>>)>>

UrlPatterns ==
    <<Mount(ApiRoute, RouterUrls),
      Mount(DocsRoute, IncludeDocsUrls)>>

----------------------------------------------------------------------------
(* Resolution *)

NoMatch ==
    [view |-> "none", name |-> "none", mount |-> <<>>,
     pk |-> <<>>, format |-> <<>>, actions |-> {}]

\* The first place at or after i where route occurs in s, or 0.
RECURSIVE FindFrom(_, _, _)
FindFrom(route, s, i) ==
    IF i + Len(route) - 1 > Len(s) THEN 0
    ELSE IF SubSeq(s, i, i + Len(route) - 1) = route THEN i
    ELSE FindFrom(route, s, i + 1)

\* A mount point found anywhere in the path (search, not match).
RoutePrefixSearch(route, s) ==
    LET i == FindFrom(route, s, 1)
    IN  IF i > 0 THEN [ok |-> TRUE, rest |-> Drop(s, i + Len(route) - 1)]
        ELSE [ok |-> FALSE, rest |-> <<>>]

\* path('api/v1/', include(...)): the route matches the start of the path
\* and hands the remainder to the included patterns.
RoutePrefixMatch(route, s) ==
    IF Len(s) >= Len(route) /\ Take(s, Len(route)) = route
    THEN [ok |-> TRUE, rest |-> Drop(s, Len(route))]
    ELSE [ok |-> FALSE, rest |-> <<>>]

\* The first pattern of an included list that matches the remainder.
RECURSIVE ResolveUrls(_, _, _)
ResolveUrls(urls, s, route) ==
    IF urls = <<>> THEN NoMatch
    ELSE LET u == Head(urls)
             kw == MatchRegex(u.regex, s, NoKwargs)
         IN  IF kw.ok
             THEN [view |-> u.view, name |-> u.name, mount |-> route,
                   pk |-> kw.pk, format |-> kw.format, actions |-> u.actions]
             ELSE ResolveUrls(Tail(urls), s, route)

RECURSIVE ResolveMounts(_, _)
ResolveMounts(table, s) ==
    IF table = <<>> THEN NoMatch
    ELSE LET m == Head(table)
             pm == RoutePrefixMatch(m.route, s)
             sub == IF pm.ok THEN ResolveUrls(m.urls, pm.rest, m.route) ELSE NoMatch
         IN  IF sub # NoMatch THEN sub ELSE ResolveMounts(Tail(table), s)

\* The root resolver strips the leading slash and tries the entries in order.
Resolve(table, path) ==
    IF path = <<>> \/ Head(path) # "/" THEN NoMatch
    ELSE ResolveMounts(table, Tail(path))

\* The request target as sent: the path, then ? and the query string.
FullTarget(req) ==
    IF req.query = "" THEN req.path ELSE req.path \o <<"?", req.query>>

\* Resolution reads the path of the request; the query string is not in it.
PathInfo(req) == req.path

----------------------------------------------------------------------------
(* Requests *)

NoRequest == [method |-> "", path |-> <<>>, query |-> ""]

\* The operation the view binds to the method, or "none".
ActionFor(actions, method) ==
    IF \E b \in actions : b[1] = method
    THEN (CHOOSE b \in actions : b[1] = method)[2]
    ELSE "none"

\* The statuses the delegated view may answer an operation with.
Outcomes(a) ==
    IF a = "list" THEN {200}
    ELSE IF a = "create" THEN {201, 400}
    ELSE IF a = "retrieve" THEN {200, 404}
    ELSE IF a = "update" THEN {200, 400, 404}
    ELSE IF a = "destroy" THEN {204, 404}
    ELSE {200}

\* Module import: the router is built and the table is assigned, once.
Init ==
    /\ urlpatterns = UrlPatterns
    /\ pc = "idle"
    /\ request = NoRequest
    /\ match = NoMatch
    /\ dispatched = FALSE
    /\ action = "none"
    /\ response = 0

\* A request arrives: its method, the path and the query string of its target.
Receive ==
    /\ pc = "idle"
    /\ pc' = "received"
    /\ \E m \in Methods, p \in Paths, q \in Queries :
          request' = [method |-> m, path |-> p, query |-> q]
    /\ UNCHANGED <<urlpatterns, match, dispatched, action, response>>

\* A resolver that also rejects a method the matched pattern does not bind.
ResolveMissOrMethod ==
    /\ pc = "received"
    /\ LET r == Resolve(urlpatterns, PathInfo(request))
       IN  \/ /\ r = NoMatch
              /\ response' = 404
              /\ match' = r
           \/ /\ r # NoMatch
              /\ ActionFor(r.actions, request.method) = "none"
              /\ response' = 405
              /\ match' = r
    /\ pc' = "done"
    /\ UNCHANGED <<urlpatterns, request, dispatched, action>>

\* No entry matches: the resolver answers not-found itself.
ResolveMiss ==
    /\ pc = "received"
    /\ Resolve(urlpatterns, PathInfo(request)) = NoMatch
    /\ response' = 404
    /\ pc' = "done"
    /\ UNCHANGED <<urlpatterns, request, match, dispatched, action>>

\* An entry matches: its view and the captured groups are the match.
ResolveHit ==
    /\ pc = "received"
    /\ Resolve(urlpatterns, PathInfo(request)) # NoMatch
    /\ match' = Resolve(urlpatterns, PathInfo(request))
    /\ pc' = "resolved"
    /\ UNCHANGED <<urlpatterns, request, dispatched, action, response>>

\* A dispatch that registers one more route on the way.
DispatchRegistering ==
    /\ pc = "resolved"
    /\ dispatched' = TRUE
    /\ action' = ActionFor(match.actions, request.method)
    /\ IF action' = "none"
       THEN response' = 405 /\ pc' = "done"
       ELSE response' = 0 /\ pc' = "handling"
    /\ urlpatterns' = IF Len(urlpatterns) < 3
                      THEN Append(urlpatterns, Mount(<<"todos", "/">>, RouterUrls))
                      ELSE urlpatterns
    /\ UNCHANGED <<request, match>>

\* The matched view is called; it answers 405 for a method it does not bind.
Dispatch ==
    /\ pc = "resolved"
    /\ dispatched' = TRUE
    /\ action' = ActionFor(match.actions, request.method)
    /\ IF action' = "none"
       THEN response' = 405 /\ pc' = "done"
       ELSE response' = 0 /\ pc' = "handling"
    /\ UNCHANGED <<urlpatterns, request, match>>

\* The view performs the operation and answers.
Respond ==
    /\ pc = "handling"
    /\ \E st \in Outcomes(action) : response' = st
    /\ pc' = "done"
    /\ UNCHANGED <<urlpatterns, request, match, dispatched, action>>

\* The response is sent and the request's state is dropped.
Finish ==
    /\ pc = "done"
    /\ pc' = "idle"
    /\ request' = NoRequest
    /\ match' = NoMatch
    /\ dispatched' = FALSE
    /\ action' = "none"
    /\ response' = 0
    /\ UNCHANGED urlpatterns

Next ==
    \/ Receive
    \/ ResolveMiss
    \/ ResolveHit
    \/ Dispatch
    \/ Respond
    \/ Finish

Spec == Init /\ [][Next]_vars

----------------------------------------------------------------------------
(* Vocabulary of the properties *)

\* The request has been through resolution.
Resolved == pc \in {"resolved", "handling", "done"}

HasPrefix(s, p) == Len(s) >= Len(p) /\ SubSeq(s, 1, Len(p)) = p

\* /api/v1/todos, as the route table of the module's comment writes it.
CollectionPath == <<"/", "api", "/", "v1", "/", "todos">>

DocsPath == <<"/", "docs", "/">>

\* An identifier the router's lookup accepts: not empty, no slash, no dot.
WellFormedId(id) ==
    id # <<>> /\ \A i \in 1..Len(id) : id[i] # "/" /\ id[i] # "."

\* /api/v1/todos/<id> for a well-formed id, as the comment writes it.
IsDeclaredItemPath(p) ==
    /\ HasPrefix(p, CollectionPath \o <<"/">>)
    /\ WellFormedId(SubSeq(p, Len(CollectionPath) + 2, Len(p)))

\* The tokens of s before its first slash.
RECURSIVE UpToSlash(_)
UpToSlash(s) ==
    IF s = <<>> \/ Head(s) = "/" THEN <<>> ELSE <<Head(s)>> \o UpToSlash(Tail(s))

\* The tokens of s before its first dot.
RECURSIVE UpToDot(_)
UpToDot(s) ==
    IF s = <<>> \/ Head(s) = "." THEN <<>> ELSE <<Head(s)>> \o UpToDot(Tail(s))

\* The path segment that follows todos/ in a path under /api/v1/todos/.
SegmentAfterTodos(p) ==
    IF HasPrefix(p, CollectionPath \o <<"/">>)
    THEN UpToSlash(SubSeq(p, Len(CollectionPath) + 2, Len(p)))
    ELSE <<>>

\* The item path of an id: the mount point, todos/, the id, the trailing slash.
ItemPath(id) == <<"/">> \o ApiRoute \o <<"todos", "/">> \o id \o <<"/">>

RECURSIVE Reverse(_)
Reverse(s) == IF s = <<>> THEN <<>> ELSE Append(Reverse(Tail(s)), Head(s))

\* The table with its entries, and the patterns of each entry, in reverse order.
ReverseTable(table) ==
    Reverse([i \in DOMAIN table |-> Mount(table[i].route, Reverse(table[i].urls))])

\* The places <<entry, pattern>> of the table that match the path.
MatchingEntries(table, path) ==
    IF path = <<>> \/ Head(path) # "/" THEN {}
    ELSE { e \in UNION {{<<i, j>> : j \in DOMAIN table[i].urls} : i \in DOMAIN table} :
             LET pm == RoutePrefixMatch(table[e[1]].route, Tail(path))
             IN  pm.ok /\ MatchRegex(table[e[1]].urls[e[2]].regex, pm.rest, NoKwargs).ok }

\* The entries of the table whose mount point matches the path.
MatchingMounts(table, path) ==
    IF path = <<>> \/ Head(path) # "/" THEN {}
    ELSE { i \in DOMAIN table : RoutePrefixMatch(table[i].route, Tail(path)).ok }

DocViews == {"DocsView", "SchemaJSView"}

IsError(st) == st >= 400

----------------------------------------------------------------------------
(* Properties *)

\* C1: each of the five routes of the table, requested with its method and a
\* path of its pattern (/api/v1/todos, /api/v1/todos/<id>), ends in the
\* operation the table names: list, create, retrieve, update, destroy.
DeclaredRoutesReachOperation ==
    pc = "done" =>
        /\ (request.path = CollectionPath /\ request.method = "GET" => action = "list")
        /\ (request.path = CollectionPath /\ request.method = "POST" => action = "create")
        /\ (IsDeclaredItemPath(request.path) /\ request.method = "GET" => action = "retrieve")
        /\ (IsDeclaredItemPath(request.path) /\ request.method = "PUT" => action = "update")
        /\ (IsDeclaredItemPath(request.path) /\ request.method = "DELETE" => action = "destroy")

\* C2: a GET or POST whose path is exactly /api/v1/todos resolves to the
\* collection handler, never to the item handler or to no handler.
CollectionPathResolvesToCollection ==
    Resolved /\ request.method \in {"GET", "POST"} /\ request.path = CollectionPath
        => match.view = "TodoView" /\ match.name = "todo-list"

\* C3: for every well-formed id, a GET, PUT or DELETE of /api/v1/todos/<id>
\* resolves to the item handler, never to the collection handler or to none.
ItemPathResolvesToItem ==
    Resolved /\ request.method \in {"GET", "PUT", "DELETE"}
             /\ IsDeclaredItemPath(request.path)
        => match.view = "TodoView" /\ match.name = "todo-detail"

\* C4: a GET of /docs/ resolves to the documentation handler whatever its
\* query string: the same request with any other query string resolves to
\* the same match.
DocsIgnoresQuery ==
    Resolved /\ request.method = "GET" /\ request.path = DocsPath
        => /\ match.view = "DocsView"
           /\ match.name = "docs-index"
           /\ \A q \in Queries :
                Resolve(urlpatterns, PathInfo([request EXCEPT !.query = q])) = match

DocsIgnoresQueryWitness ==
    /\ pc = "done"
    /\ request.method = "GET"
    /\ request.path = DocsPath
    /\ request.query # ""
    /\ match.name = "docs-index"
    /\ response = 200

\* C5: a path that starts with neither /api/v1/ nor /docs/ matches no entry:
\* it has no match, is not dispatched, and ends in the resolver's not-found.
OutsidePrefixesUnmatched ==
    Resolved /\ ~HasPrefix(request.path, <<"/">> \o ApiRoute)
             /\ ~HasPrefix(request.path, <<"/">> \o DocsRoute)
        => /\ match = NoMatch
           /\ ~dispatched
           /\ pc = "done"
           /\ response = 404

OutsidePrefixesUnmatchedWitness ==
    /\ pc = "done"
    /\ request.path = <<"/", "admin", "/", "docs", "/">>
    /\ match = NoMatch
    /\ response = 404

\* C6 as stated: every matched path goes to the todo resource controller
\* (under api/v1/) or to the documentation view (under docs/), and to no
\* other handler.
OnlyTwoHandlers ==
    Resolved /\ match # NoMatch
        => \/ match.mount = ApiRoute /\ match.view = "TodoView"
           \/ match.mount = DocsRoute /\ match.view \in DocViews

\* C6 amended: a path matched under api/v1/ goes to the todo resource
\* controller or, when nothing or only a format suffix follows the mount
\* point, to the router's API root view; a path matched under docs/ goes to
\* a documentation view (the index or schema.js); no other handler is reached.
MatchedHandlers ==
    Resolved /\ match # NoMatch
        => \/ /\ match.mount = ApiRoute
              /\ HasPrefix(request.path, <<"/">> \o ApiRoute)
              /\ \/ match.view = "TodoView" /\ match.name \in {"todo-list", "todo-detail"}
                 \/ /\ match.view = "APIRootView"
                    /\ match.name = "api-root"
                    /\ LET rest == SubSeq(request.path, Len(ApiRoute) + 2, Len(request.path))
                       IN  rest = <<>> \/ Head(rest) = "."
           \/ /\ match.mount = DocsRoute
              /\ HasPrefix(request.path, <<"/">> \o DocsRoute)
              /\ match.view \in DocViews

MatchedHandlersWitness ==
    /\ pc = "done"
    /\ request.path = <<"/">> \o ApiRoute
    /\ match.view = "APIRootView"
    /\ dispatched
    /\ response = 200

\* C7 as stated: no request ends in an error without having been dispatched
\* to the resource controller.
ErrorsOnlyFromController ==
    pc = "done" /\ IsError(response) => dispatched /\ match.view = "TodoView"

\* C7 amended: a request whose path matches no entry ends in a not-found
\* that URL resolution produces, without dispatch; every other error
\* (method-not-allowed, validation failure, record not-found) is produced
\* after dispatch by the view the path resolved to, and a matched request is
\* never rejected before dispatch.
ErrorsFromResolverOnlyWhenUnmatched ==
    pc = "done" =>
        /\ (match # NoMatch => dispatched)
        /\ (match = NoMatch => ~dispatched /\ response = 404)
        /\ (IsError(response) /\ ~dispatched => response = 404 /\ match = NoMatch)
        /\ (response \in {400, 405} => dispatched /\ match # NoMatch)

ErrorsFromResolverOnlyWhenUnmatchedWitness ==
    /\ pc = "done"
    /\ response = 405
    /\ dispatched
    /\ match.view = "TodoView"
    /\ request.method = "PUT"
    /\ match.name = "todo-list"

\* C8: no step of request handling adds, removes or changes a route: the
\* table stays the one registered at import, and the path of the request
\* resolves after the step as it did before.
RouteTableFrozen ==
    [][/\ urlpatterns' = urlpatterns
       /\ Resolve(urlpatterns', PathInfo(request)) = Resolve(urlpatterns, PathInfo(request))]_vars

RouteTableFrozenWitness ==
    /\ pc = "done"
    /\ dispatched
    /\ action = "create"
    /\ response = 201
    /\ urlpatterns = UrlPatterns

\* C9: every path matches at most one pattern of the table, at most one
\* mount point, never both the collection and the item pattern, and
\* resolves the same with the entries in reverse order.
ResolutionUnambiguous ==
    pc # "idle" =>
        LET p == PathInfo(request)
            hits == MatchingEntries(urlpatterns, p)
        IN  /\ Cardinality(hits) <= 1
            /\ Cardinality(MatchingMounts(urlpatterns, p)) <= 1
            /\ Resolve(ReverseTable(urlpatterns), p) = Resolve(urlpatterns, p)
            /\ (Resolved => (match # NoMatch <=> hits # {}))

ResolutionUnambiguousWitness ==
    /\ pc = "resolved"
    /\ match.name = "todo-detail"
    /\ match.format = <<"7">>
    /\ Cardinality(MatchingEntries(urlpatterns, PathInfo(request))) = 1

\* C10 as stated: the identifier handed to the item handler is exactly the
\* path segment that follows todos/, unchanged and not empty.
IdIsWholeSegment ==
    Resolved /\ match.name = "todo-detail"
        => match.pk # <<>> /\ match.pk = SegmentAfterTodos(request.path)

\* C10 amended: the identifier handed to the item handler is the path
\* segment that follows todos/ up to its first dot (what follows the dot is
\* the format suffix, not part of the identifier); it is not empty and holds
\* no slash and no dot; the item path built for it resolves to the item
\* handler with the same identifier; the item path built for the empty
\* identifier does not resolve to the item handler.
IdIsSegmentStem ==
    Resolved /\ match.name = "todo-detail"
        => /\ WellFormedId(match.pk)
           /\ match.pk = UpToDot(SegmentAfterTodos(request.path))
           /\ (match.format = <<>> => match.pk = SegmentAfterTodos(request.path))
           /\ Resolve(urlpatterns, ItemPath(match.pk)).name = "todo-detail"
           /\ Resolve(urlpatterns, ItemPath(match.pk)).pk = match.pk
           /\ Resolve(urlpatterns, ItemPath(<<>>)).name # "todo-detail"

IdIsSegmentStemWitness ==
    /\ pc = "done"
    /\ match.name = "todo-detail"
    /\ match.pk = <<"7">>
    /\ match.format = <<"todos">>
    /\ action = "retrieve"

====
